---- MODULE Spec2Model ----
(***************************************************************************)
(* AIVIA mock-interview client (src/app.js, class AIVIAApp).               *)
(*                                                                         *)
(* The controller is single-threaded: every user event handler and every   *)
(* timer callback runs to completion, so each is one action.  Timers are   *)
(* kept in the bag `pending`: one record per scheduled setTimeout or       *)
(* setInterval that has not been cleared, holding the values its closure   *)
(* captured.  A timer id is not modelled as a number: the record's `slot`  *)
(* says which field of this.timers currently holds its id ("none" when no  *)
(* field does, so that clearTimers cannot reach it).                       *)
(* Delays are abstracted: a pending timer may fire at any later moment.    *)
(***************************************************************************)
EXTENDS Naturals, Integers, Sequences, FiniteSets, Bags, TLC

VARIABLES
    state,       \* this.state
    timers,      \* this.timers: per field NULL or HANDLE
    pending,     \* bag of scheduled, uncleared timers
    now,         \* Date.now(), in seconds since page load
    dom,         \* the part of the page the controller reads and writes
    afterReset,  \* history: resetApp was the last user action
    clicks       \* history: the number of user events so far

vars == <<state, timers, pending, now, dom, afterReset, clicks>>

\* null and undefined; a timer id held in a field of this.timers.
NULL == <<>>
HANDLE == <<"id">>

\* Model bounds.
MaxClicks == 6    \* user events per behaviour
MaxPending == 3   \* the user schedules no new timer while this many are pending
MaxNow == 1       \* the wall clock is observed at 0..MaxNow seconds

(***************************************************************************)
(* Role catalog (constructor, this.jobRoles): six entries, four questions  *)
(* each.  A question text is represented by <<role id, position>>.         *)
(***************************************************************************)
RoleIds == <<"SDE", "Data Analysis", "Full Stack", "Backend", "Frontend", "DevOps">>

QuestionsPerRole == 4

jobRoles ==
    [i \in 1..Len(RoleIds) |->
        [id |-> RoleIds[i],
         questions |-> [q \in 1..QuestionsPerRole |-> <<RoleIds[i], q>>]]]

Roles == {jobRoles[i] : i \in 1..Len(jobRoles)}

NumResponses == 5

mockResponses == [i \in 1..NumResponses |-> <<"response", i>>]

Screens ==
    {"role-selection", "resume-upload", "interview-setup",
     "voice-interview", "interview-complete"}

AvatarStates == {"ready", "listening", "speaking"}

(***************************************************************************)
(* Files offered by the user: name (sequence of characters), MIME type,    *)
(* size in bytes.                                                          *)
(***************************************************************************)
MiB == 1024 * 1024

maxSize == 10 * 1024 * 1024

validTypes ==
    {"application/pdf",
     "application/vnd.openxmlformats-officedocument.wordprocessingml.document",
     "application/msword"}

File(name, type, size) == [name |-> name, type |-> type, size |-> size]

Files ==
    { File(<<"r", ".", "e", "x", "e">>, "application/x-msdownload", 2 * MiB),
      File(<<"r", ".", "e", "x", "e">>, "application/x-msdownload", 11 * MiB),
      File(<<"r", ".", "p", "d", "f">>, "application/pdf", 11 * MiB),
      File(<<"r", ".", "d", "o", "c">>, "", maxSize + 1),
      File(<<"R", ".", "P", "D", "F">>, "", 2 * MiB),
      File(<<"r", ".", "d", "o", "c", "x">>, "", 11 * MiB),
      File(<<"r", ".", "t", "x", "t">>, "application/msword", maxSize) }

UpperToLower ==
    ("A" :> "a") @@ ("B" :> "b") @@ ("C" :> "c") @@ ("D" :> "d") @@ ("E" :> "e") @@
    ("F" :> "f") @@ ("G" :> "g") @@ ("H" :> "h") @@ ("I" :> "i") @@ ("J" :> "j") @@
    ("K" :> "k") @@ ("L" :> "l") @@ ("M" :> "m") @@ ("N" :> "n") @@ ("O" :> "o") @@
    ("P" :> "p") @@ ("Q" :> "q") @@ ("R" :> "r") @@ ("S" :> "s") @@ ("T" :> "t") @@
    ("U" :> "u") @@ ("V" :> "v") @@ ("W" :> "w") @@ ("X" :> "x") @@ ("Y" :> "y") @@
    ("Z" :> "z")

toLowerCase(s) ==
    [i \in 1..Len(s) |-> IF s[i] \in DOMAIN UpperToLower THEN UpperToLower[s[i]] ELSE s[i]]

endsWith(s, suffix) ==
    /\ Len(s) >= Len(suffix)
    /\ SubSeq(s, Len(s) - Len(suffix) + 1, Len(s)) = suffix

\* Mutant: any name with an extension passes the type check.
isValidTypeAnyExtension(file) ==
    \/ file.type \in validTypes
    \/ \E i \in 1..Len(file.name) : file.name[i] = "."

isValidType(file) ==
    \/ file.type \in validTypes
    \/ endsWith(toLowerCase(file.name), <<".", "p", "d", "f">>)
    \/ endsWith(toLowerCase(file.name), <<".", "d", "o", "c", "x">>)
    \/ endsWith(toLowerCase(file.name), <<".", "d", "o", "c">>)

TypeErrorMessage == "Please upload a PDF or DOCX file"

SizeErrorMessage == "File size must be less than 10MB"

(***************************************************************************)
(* Initial values.                                                         *)
(***************************************************************************)
DefaultState ==
    [currentScreen |-> "role-selection",
     selectedRole |-> NULL,
     uploadedFile |-> NULL,
     interviewActive |-> FALSE,
     currentQuestionIndex |-> 0,
     interviewStartTime |-> NULL,
     interviewDuration |-> 0,
     avatarState |-> "ready",
     isMuted |-> FALSE]

NoTimers == [interview |-> NULL, avatar |-> NULL, setup |-> NULL]

\* The page as loaded: what resetApp and removeFile restore, nothing shown yet.
InitialDom ==
    [selectedCards |-> {},          \* role cards carrying class "selected"
     uploadAreaHidden |-> FALSE,    \* #upload-area has class "hidden"
     uploadProgressHidden |-> TRUE, \* #upload-progress has class "hidden"
     fileInfoHidden |-> TRUE,       \* #file-info has class "hidden"
     fileName |-> NULL,             \* #file-name text
     startDisabled |-> TRUE,        \* #start-interview disabled
     stepsActive |-> {},            \* setup steps carrying class "active"
     stepsDone |-> {},              \* setup steps whose icon shows the check mark
     questionText |-> NULL,         \* #current-question-text
     btnText |-> "initial",         \* #start-stop-btn label
     muteText |-> "initial",        \* #mute-btn label
     finalDuration |-> NULL,        \* #final-duration text
     questionsCompleted |-> NULL,   \* #questions-completed text
     errorHidden |-> TRUE,          \* #error-toast has class "hidden"
     errorMessage |-> ""]           \* #error-message text

Init ==
    /\ state = DefaultState
    /\ timers = NoTimers
    /\ pending = EmptyBag
    /\ now = 0
    /\ dom = InitialDom
    /\ afterReset = FALSE
    /\ clicks = 0

(***************************************************************************)
(* Timers.                                                                 *)
(***************************************************************************)
TimerKinds ==
    {"advance",         \* selectRole: show the upload screen
     "progress",        \* showUploadProgress: the progress interval
     "completeUpload",  \* showUploadProgress: completeUpload(file)
     "processStep",     \* simulateSetupProcess: the next processStep
     "startVoice",      \* simulateSetupProcess: startVoiceInterview
     "questionSpoken",  \* beginQuestionFlow: the question has been spoken
     "userSpoke",       \* simulateInterviewFlow: the user has answered
     "responseSpoken",  \* simulateInterviewFlow: the response has been spoken
     "clock",           \* startInterviewTimer: the interview clock interval
     "hideError"}       \* showError: auto-hide

\* k: the callback; n, file: what its closure captured; slot: the field of
\* this.timers holding its id.
Timer(k, n, file, slot) == [k |-> k, n |-> n, file |-> file, slot |-> slot]

Single(t) == SetToBag({t})

Holders(B, slot) == {t \in BagToSet(B) : t.slot = slot}

\* The field `slot` is overwritten: a timer whose id it held stays scheduled
\* but can no longer be cleared.
Forget(B, slot) ==
    IF Holders(B, slot) = {} THEN B
    ELSE LET t == CHOOSE x \in Holders(B, slot) : TRUE
         IN (B (-) Single(t)) (+) Single([t EXCEPT !.slot = "none"])

\* setTimeout / setInterval whose id is dropped.
schedule(s, t) == [s EXCEPT !.pending = @ (+) Single(t)]

\* this.timers[slot] = setTimeout / setInterval(...)
scheduleInto(s, slot, t) ==
    [s EXCEPT !.pending = Forget(@, slot) (+) Single([t EXCEPT !.slot = slot]),
              !.timers[slot] = HANDLE]

\* clearTimeout / clearInterval of the timer `t` itself (from its own callback).
cancel(s, t) == [s EXCEPT !.pending = @ (-) Single(t)]

DateNow == now * 1000

(***************************************************************************)
(* Utility functions.                                                      *)
(***************************************************************************)
Digit(d) == <<"0", "1", "2", "3", "4", "5", "6", "7", "8", "9">>[d + 1]

RECURSIVE toString(_)
toString(n) == IF n < 10 THEN <<Digit(n)>> ELSE toString(n \div 10) \o <<Digit(n % 10)>>

padStart2(str) == IF Len(str) < 2 THEN <<"0">> \o str ELSE str

formatDuration(milliseconds) ==
    LET seconds == milliseconds \div 1000
        minutes == seconds \div 60
        remainingSeconds == seconds % 60
    IN padStart2(toString(minutes)) \o <<":">> \o padStart2(toString(remainingSeconds))

Min(a, b) == IF a < b THEN a ELSE b

(***************************************************************************)
(* Methods of AIVIAApp, as functions of the application record             *)
(* s = [state, timers, pending, dom].                                      *)
(***************************************************************************)
getCurrentQuestions(s) ==
    IF s.state.selectedRole # NULL THEN s.state.selectedRole.questions ELSE <<>>

showScreen(s, screenId) == [s EXCEPT !.state.currentScreen = screenId]

setAvatarState(s, a) == [s EXCEPT !.state.avatarState = a]

clearTimers(s) ==
    [s EXCEPT !.pending = [t \in {x \in BagToSet(@) : x.slot = "none"} |-> @[t]],
              !.timers = NoTimers]

hideError(s) == [s EXCEPT !.dom.errorHidden = TRUE]

\* Mutant: a banner on display keeps its message.
showErrorKeepsMessage(s, message) ==
    schedule([s EXCEPT !.dom.errorMessage = IF s.dom.errorHidden THEN message ELSE @,
                       !.dom.errorHidden = FALSE],
             Timer("hideError", 0, NULL, "none"))

showError(s, message) ==
    schedule([s EXCEPT !.dom.errorMessage = message, !.dom.errorHidden = FALSE],
             Timer("hideError", 0, NULL, "none"))

updateCurrentQuestion(s, text) ==
    IF text # NULL
    THEN [s EXCEPT !.dom.questionText = text]
    ELSE IF /\ s.state.selectedRole # NULL
            /\ s.state.currentQuestionIndex < Len(getCurrentQuestions(s))
         THEN [s EXCEPT !.dom.questionText =
                   getCurrentQuestions(s)[s.state.currentQuestionIndex + 1]]
         ELSE s

(* ---- role selection ---- *)
\* Mutant: the previous selection is not removed.
selectRoleKeepsSelection(s, role) ==
    schedule([s EXCEPT !.dom.selectedCards = @ \cup {role.id},
                       !.state.selectedRole = role],
             Timer("advance", 0, NULL, "none"))

selectRole(s, role) ==
    schedule([s EXCEPT !.dom.selectedCards = {role.id},
                       !.state.selectedRole = role],
             Timer("advance", 0, NULL, "none"))

(* ---- upload ---- *)
showUploadProgress(s, file) ==
    schedule([s EXCEPT !.dom.uploadAreaHidden = TRUE,
                       !.dom.uploadProgressHidden = FALSE],
             Timer("progress", 0, file, "none"))

\* Mutant: the size is checked before the type.
handleFileUploadSizeFirst(s, file) ==
    IF file.size > maxSize THEN showError(s, SizeErrorMessage)
    ELSE IF ~isValidType(file) THEN showError(s, TypeErrorMessage)
    ELSE showUploadProgress(s, file)

\* Mutant: a file of exactly the maximum size is refused.
handleFileUploadStrict(s, file) ==
    IF ~isValidType(file) THEN showError(s, TypeErrorMessage)
    ELSE IF file.size >= maxSize THEN showError(s, SizeErrorMessage)
    ELSE showUploadProgress(s, file)

handleFileUpload(s, file) ==
    IF ~isValidType(file) THEN showError(s, TypeErrorMessage)
    ELSE IF file.size > maxSize THEN showError(s, SizeErrorMessage)
    ELSE showUploadProgress(s, file)

\* Mutant: the upload completes without enabling the start action.
completeUploadStaysDisabled(s, file) ==
    [s EXCEPT !.dom.uploadProgressHidden = TRUE,
              !.dom.fileInfoHidden = FALSE,
              !.dom.fileName = file.name,
              !.state.uploadedFile = file]

completeUpload(s, file) ==
    [s EXCEPT !.dom.uploadProgressHidden = TRUE,
              !.dom.fileInfoHidden = FALSE,
              !.dom.fileName = file.name,
              !.state.uploadedFile = file,
              !.dom.startDisabled = FALSE]

\* One tick of the progress interval `t`; inc is 5 + Math.random() * 15.
\* Mutant: the interval is not cleared at 100 and ends the upload again.
progressTickKeepsInterval(s, t, inc) ==
    LET progress == Min(t.n + inc, 100)
    IN IF progress >= 100
       THEN schedule(s, Timer("completeUpload", 0, t.file, "none"))
       ELSE schedule(cancel(s, t), [t EXCEPT !.n = progress])

progressTick(s, t, inc) ==
    LET progress == Min(t.n + inc, 100)
    IN IF progress >= 100
       THEN schedule(cancel(s, t), Timer("completeUpload", 0, t.file, "none"))
       ELSE schedule(cancel(s, t), [t EXCEPT !.n = progress])

\* Mutant: removing the file also leaves the upload screen.
removeFileLeavesScreen(s) ==
    [s EXCEPT !.dom.uploadAreaHidden = FALSE,
              !.dom.fileInfoHidden = TRUE,
              !.state.uploadedFile = NULL,
              !.state.currentScreen = "role-selection",
              !.dom.startDisabled = TRUE]

removeFile(s) ==
    [s EXCEPT !.dom.uploadAreaHidden = FALSE,
              !.dom.fileInfoHidden = TRUE,
              !.state.uploadedFile = NULL,
              !.dom.startDisabled = TRUE]

(* ---- setup ---- *)
StepCount == 3

\* processStep with the closure variable currentStep = step (0 on the first call).
\* Mutant: the previous step is not marked complete.
processStepWithoutMark(s, step) ==
    IF step < StepCount
    THEN scheduleInto([s EXCEPT !.dom.stepsActive = @ \cup {step + 1}],
                      "setup", Timer("processStep", step + 1, NULL, "setup"))
    ELSE schedule(s, Timer("startVoice", 0, NULL, "none"))

processStep(s, step) ==
    LET marked == IF step > 0 THEN [s EXCEPT !.dom.stepsDone = @ \cup {step}] ELSE s
    IN IF step < StepCount
       THEN scheduleInto([marked EXCEPT !.dom.stepsActive = @ \cup {step + 1}],
                         "setup", Timer("processStep", step + 1, NULL, "setup"))
       ELSE schedule(marked, Timer("startVoice", 0, NULL, "none"))

simulateSetupProcess(s) == processStep(s, 0)

startInterviewSetup(s) == simulateSetupProcess(showScreen(s, "interview-setup"))

\* Mutant: the avatar is set to a state outside the enumeration.
startVoiceInterviewIdle(s) ==
    setAvatarState(updateCurrentQuestion(showScreen(s, "voice-interview"), NULL), "idle")

startVoiceInterview(s) ==
    LET shown == showScreen(s, "voice-interview")
    IN setAvatarState(updateCurrentQuestion(shown, NULL), "ready")

(* ---- interview ---- *)
startInterviewTimer(s) ==
    scheduleInto(s, "interview", Timer("clock", 0, NULL, "interview"))

clockTick(s) ==
    [s EXCEPT !.state.interviewDuration =
         DateNow - (IF s.state.interviewStartTime = NULL THEN 0
                    ELSE s.state.interviewStartTime[1])]

beginQuestionFlow(s) ==
    schedule(updateCurrentQuestion(setAvatarState(s, "speaking"), NULL),
             Timer("questionSpoken", 0, NULL, "none"))

completeInterview(s) ==
    LET stopped == clearTimers([s EXCEPT !.state.interviewActive = FALSE])
        timed == [stopped EXCEPT !.dom.finalDuration =
                      formatDuration(stopped.state.interviewDuration)]
        counted ==
            IF timed.state.selectedRole # NULL
            THEN LET total == Len(getCurrentQuestions(timed))
                 IN [timed EXCEPT !.dom.questionsCompleted =
                         <<Min(timed.state.currentQuestionIndex + 1, total), total>>]
            ELSE timed
    IN showScreen(counted, "interview-complete")

\* simulateInterviewFlow: schedules the end of the user's answer.
simulateInterviewFlow(s) ==
    IF ~s.state.interviewActive THEN s
    ELSE schedule(s, Timer("userSpoke", 0, NULL, "none"))

\* The callback of beginQuestionFlow's timeout.
\* Mutant: the callback does not test interviewActive.
questionSpokenUnguarded(s) ==
    LET listening == setAvatarState(s, "listening")
    IN schedule(listening, Timer("userSpoke", 0, NULL, "none"))

questionSpoken(s) ==
    IF s.state.interviewActive
    THEN simulateInterviewFlow(setAvatarState(s, "listening"))
    ELSE s

\* The outer callback of simulateInterviewFlow; r indexes the response drawn.
\* Mutant: the question is counted when the response starts.
userSpokeCounts(s, r) ==
    IF ~s.state.interviewActive THEN s
    ELSE schedule(updateCurrentQuestion(
                      setAvatarState([s EXCEPT !.state.currentQuestionIndex = @ + 1],
                                     "speaking"),
                      mockResponses[r]),
                  Timer("responseSpoken", 0, NULL, "none"))

userSpoke(s, r) ==
    IF ~s.state.interviewActive THEN s
    ELSE schedule(updateCurrentQuestion(setAvatarState(s, "speaking"), mockResponses[r]),
                  Timer("responseSpoken", 0, NULL, "none"))

\* The inner callback of simulateInterviewFlow.
\* Mutant: one question cycle too many.
responseSpokenOffByOne(s) ==
    IF ~s.state.interviewActive THEN s
    ELSE LET next == [s EXCEPT !.state.currentQuestionIndex = @ + 1]
         IN IF next.state.currentQuestionIndex <= Len(getCurrentQuestions(next))
            THEN beginQuestionFlow(next)
            ELSE completeInterview(next)

responseSpoken(s) ==
    IF ~s.state.interviewActive THEN s
    ELSE LET next == [s EXCEPT !.state.currentQuestionIndex = @ + 1]
         IN IF next.state.currentQuestionIndex < Len(getCurrentQuestions(next))
            THEN beginQuestionFlow(next)
            ELSE completeInterview(next)

\* Mutant: pausing leaves the timers running.
pauseInterviewKeepsTimers(s) ==
    setAvatarState([s EXCEPT !.state.interviewActive = FALSE,
                             !.dom.btnText = "Resume Interview"],
                   "ready")

\* Mutant: pausing also zeroes the elapsed duration.
pauseInterviewZeroesDuration(s) ==
    clearTimers(setAvatarState([s EXCEPT !.state.interviewActive = FALSE,
                                         !.state.interviewDuration = 0,
                                         !.dom.btnText = "Resume Interview"],
                               "ready"))

pauseInterview(s) ==
    clearTimers(setAvatarState([s EXCEPT !.state.interviewActive = FALSE,
                                         !.dom.btnText = "Resume Interview"],
                               "ready"))

\* Mutant: the interview starts without its clock.
toggleInterviewWithoutClock(s) ==
    IF ~s.state.interviewActive
    THEN beginQuestionFlow(
             [s EXCEPT !.state.interviewActive = TRUE,
                       !.state.interviewStartTime = <<DateNow>>,
                       !.state.currentQuestionIndex = 0,
                       !.dom.btnText = "Stop Interview"])
    ELSE pauseInterview(s)

toggleInterview(s) ==
    IF ~s.state.interviewActive
    THEN beginQuestionFlow(startInterviewTimer(
             [s EXCEPT !.state.interviewActive = TRUE,
                       !.state.interviewStartTime = <<DateNow>>,
                       !.state.currentQuestionIndex = 0,
                       !.dom.btnText = "Stop Interview"]))
    ELSE pauseInterview(s)

\* Mutant: muting also puts the avatar into the listening state.
toggleMuteListens(s) ==
    LET flipped == [s EXCEPT !.state.isMuted = ~@, !.state.avatarState = "listening"]
    IN [flipped EXCEPT !.dom.muteText =
            IF flipped.state.isMuted THEN "Muted" ELSE "Unmuted"]

toggleMute(s) ==
    LET flipped == [s EXCEPT !.state.isMuted = ~@]
    IN [flipped EXCEPT !.dom.muteText =
            IF flipped.state.isMuted THEN "Muted" ELSE "Unmuted"]

endInterview(s) ==
    completeInterview(clearTimers([s EXCEPT !.state.interviewActive = FALSE]))

(* ---- reset ---- *)
\* Mutant: the mute flag survives the reset.
resetAppKeepsMute(s) ==
    LET cleared == clearTimers(s)
        fresh == [cleared EXCEPT !.state = [DefaultState EXCEPT !.isMuted = s.state.isMuted],
                                 !.dom.selectedCards = {}]
    IN showScreen(removeFile(fresh), "role-selection")

resetApp(s) ==
    LET cleared == clearTimers(s)
        fresh == [cleared EXCEPT !.state = DefaultState, !.dom.selectedCards = {}]
    IN showScreen(removeFile(fresh), "role-selection")

(***************************************************************************)
(* Actions.  A control can be operated only while its screen is the one    *)
(* shown and the control is neither hidden nor disabled.                   *)
(***************************************************************************)
Cur == [state |-> state, timers |-> timers, pending |-> pending, dom |-> dom]

Commit(s) ==
    /\ state' = s.state
    /\ timers' = s.timers
    /\ pending' = s.pending
    /\ dom' = s.dom

Room(n) == BagCardinality(pending) + n <= MaxPending

UserEvent(s, reset) ==
    /\ clicks < MaxClicks
    /\ clicks' = clicks + 1
    /\ afterReset' = reset
    /\ Commit(s)
    /\ UNCHANGED now

UserStep(s) == UserEvent(s, FALSE)

TimerStep(s) == Commit(s) /\ UNCHANGED <<now, afterReset, clicks>>

Scheduled(kind) == {t \in BagToSet(pending) : t.k = kind}

(* ---- history: question-cycle timeouts that outlive a pause or a reset ---- *)
CycleKinds == {"questionSpoken", "userSpoke", "responseSpoken"}

\* A question-cycle timeout carries n = 0 when scheduled and n = 1 once a
\* pause or a reset has happened while it was pending.  No method reads n
\* of these timers: the mark only records the order of events.
Outlived(t) == IF t.k \in CycleKinds THEN [t EXCEPT !.n = 1] ELSE t

OutliveAll(B) ==
    LET S == BagToSet(B)
        Fresh(u) == [u EXCEPT !.n = 0]
    IN [u \in {Outlived(t) : t \in S} |->
           (IF u \in S THEN B[u] ELSE 0)
           + (IF u.k \in CycleKinds /\ u.n = 1 /\ Fresh(u) \in S THEN B[Fresh(u)] ELSE 0)]

\* s, the result of a pause or a reset, with its surviving cycle timeouts marked.
AfterStop(s) == [s EXCEPT !.pending = OutliveAll(@)]

(* ---- user events (bindEvents, bindUploadEvents) ---- *)
LogoClick ==
    /\ UserEvent(AfterStop(resetApp(Cur)), TRUE)

StartNewInterviewClick ==
    /\ state.currentScreen = "interview-complete"
    /\ UserEvent(AfterStop(resetApp(Cur)), TRUE)

RoleCardClickOn(cards) ==
    /\ state.currentScreen = "role-selection"
    /\ Room(1)
    /\ \E role \in cards : UserStep(selectRole(Cur, role))

\* The two cards clicked in the full model; every card in RoleSpec below.
ClickedRoles == {jobRoles[1], jobRoles[4]}

RoleCardClick == RoleCardClickOn(ClickedRoles)

AnyRoleCardClick == RoleCardClickOn(Roles)

FileChosenFrom(files) ==
    /\ state.currentScreen = "resume-upload"
    /\ ~dom.uploadAreaHidden
    /\ Room(1)
    /\ \E file \in files : UserStep(handleFileUpload(Cur, file))

FileChosen == FileChosenFrom(Files)

RemoveFileClick ==
    /\ state.currentScreen = "resume-upload"
    /\ ~dom.fileInfoHidden
    /\ UserStep(removeFile(Cur))

BackToRolesClick ==
    /\ state.currentScreen = "resume-upload"
    /\ UserStep(showScreen(Cur, "role-selection"))

StartInterviewClick ==
    /\ state.currentScreen = "resume-upload"
    /\ ~dom.startDisabled
    /\ Room(1)
    /\ UserStep(startInterviewSetup(Cur))

StartStopClick ==
    /\ state.currentScreen = "voice-interview"
    /\ state.interviewActive \/ Room(2)
    /\ UserStep(IF state.interviewActive
                THEN AfterStop(toggleInterview(Cur))
                ELSE toggleInterview(Cur))

MuteClick ==
    /\ state.currentScreen = "voice-interview"
    /\ UserStep(toggleMute(Cur))

EndInterviewClick ==
    /\ state.currentScreen = "voice-interview"
    /\ UserStep(endInterview(Cur))

CloseErrorClick ==
    /\ ~dom.errorHidden
    /\ UserStep(hideError(Cur))

(* ---- the wall clock ---- *)
Tick ==
    /\ now < MaxNow
    /\ now' = now + 1
    /\ UNCHANGED <<state, timers, pending, dom, afterReset, clicks>>

(* ---- timer callbacks ---- *)
AdvanceFires ==
    \E t \in Scheduled("advance") :
        TimerStep(showScreen(cancel(Cur, t), "resume-upload"))

\* 5 + Math.random() * 15 lies in [5, 20).
ProgressSteps == {5, 15}

ProgressFires ==
    \E t \in Scheduled("progress") : \E inc \in ProgressSteps :
        TimerStep(progressTick(Cur, t, inc))

CompleteUploadFires ==
    \E t \in Scheduled("completeUpload") :
        TimerStep(completeUpload(cancel(Cur, t), t.file))

ProcessStepFires ==
    \E t \in Scheduled("processStep") :
        TimerStep(processStep(cancel(Cur, t), t.n))

StartVoiceFires ==
    \E t \in Scheduled("startVoice") :
        TimerStep(startVoiceInterview(cancel(Cur, t)))

QuestionSpokenFires ==
    \E t \in Scheduled("questionSpoken") :
        TimerStep(questionSpoken(cancel(Cur, t)))

UserSpokeFires ==
    \E t \in Scheduled("userSpoke") : \E r \in 1..NumResponses :
        TimerStep(userSpoke(cancel(Cur, t), r))

ResponseSpokenFires ==
    \E t \in Scheduled("responseSpoken") :
        TimerStep(responseSpoken(cancel(Cur, t)))

ClockFires ==
    \E t \in Scheduled("clock") : TimerStep(clockTick(Cur))

HideErrorFires ==
    \E t \in Scheduled("hideError") : TimerStep(hideError(cancel(Cur, t)))

UserAction ==
    \/ LogoClick
    \/ StartNewInterviewClick
    \/ RoleCardClick
    \/ FileChosen
    \/ RemoveFileClick
    \/ BackToRolesClick
    \/ StartInterviewClick
    \/ StartStopClick
    \/ MuteClick
    \/ EndInterviewClick
    \/ CloseErrorClick

TimerFires ==
    \/ AdvanceFires
    \/ ProgressFires
    \/ CompleteUploadFires
    \/ ProcessStepFires
    \/ StartVoiceFires
    \/ QuestionSpokenFires
    \/ UserSpokeFires
    \/ ResponseSpokenFires
    \/ ClockFires
    \/ HideErrorFires

Next == UserAction \/ Tick \/ TimerFires

Spec == Init /\ [][Next]_vars

(***************************************************************************)
(* Role selection alone, over the whole catalog.                           *)
(***************************************************************************)
RoleNext == AnyRoleCardClick \/ AdvanceFires \/ BackToRolesClick \/ LogoClick

RoleSpec == Init /\ [][RoleNext]_vars

(***************************************************************************)
(* The straight flow: the user selects a role, uploads, starts the setup   *)
(* and presses Start once; no pause, end, removal, navigation or reset.    *)
(* Every scheduled timer eventually fires (the browser's event loop).      *)
(***************************************************************************)
StartOnceClick ==
    /\ ~state.interviewActive
    /\ dom.btnText = "initial"
    /\ StartStopClick

\* The files the user of the straight flow uploads: the two acceptable ones.
ValidFileChosen ==
    FileChosenFrom({f \in Files : f.type # "application/x-msdownload" /\ f.size <= maxSize})

FlowNext ==
    \/ RoleCardClick
    \/ ValidFileChosen
    \/ StartInterviewClick
    \/ StartOnceClick
    \/ Tick
    \/ AdvanceFires
    \/ ProgressFires
    \/ CompleteUploadFires
    \/ ProcessStepFires
    \/ StartVoiceFires
    \/ QuestionSpokenFires
    \/ UserSpokeFires
    \/ ResponseSpokenFires
    \/ ClockFires

FlowFairness ==
    /\ WF_vars(AdvanceFires)
    /\ WF_vars(ProgressFires)
    /\ WF_vars(CompleteUploadFires)
    /\ WF_vars(ProcessStepFires)
    /\ WF_vars(StartVoiceFires)
    /\ WF_vars(QuestionSpokenFires)
    /\ WF_vars(UserSpokeFires)
    /\ WF_vars(ResponseSpokenFires)

FlowSpec == Init /\ [][FlowNext]_vars /\ FlowFairness

(***************************************************************************)
(* The uninterrupted flow: the straight flow in which the user also clicks *)
(* one role card only, so that one timer chain runs at a time.             *)
(***************************************************************************)
SelectOnceClick ==
    /\ state.selectedRole = NULL
    /\ RoleCardClick

UninterruptedNext ==
    \/ SelectOnceClick
    \/ ValidFileChosen
    \/ StartInterviewClick
    \/ StartOnceClick
    \/ Tick
    \/ AdvanceFires
    \/ ProgressFires
    \/ CompleteUploadFires
    \/ ProcessStepFires
    \/ StartVoiceFires
    \/ QuestionSpokenFires
    \/ UserSpokeFires
    \/ ResponseSpokenFires
    \/ ClockFires

UninterruptedSpec == Init /\ [][UninterruptedNext]_vars

(***************************************************************************)
(* A session continued without any reset from a state the full model       *)
(* reaches after five user events: role, valid file and start-interview,   *)
(* the three setup steps, a logo click during the final setup delay, a     *)
(* role card click, and then the startVoiceInterview timeout that outlived *)
(* the reset.  The voice-interview screen is shown with a role and no      *)
(* file, and the auto-advance timeout of the role click is pending.        *)
(***************************************************************************)
LeakedVoiceScreen ==
    /\ state = [DefaultState EXCEPT !.currentScreen = "voice-interview",
                                    !.selectedRole = jobRoles[1]]
    /\ timers = NoTimers
    /\ pending = Single(Timer("advance", 0, NULL, "none"))
    /\ dom = [InitialDom EXCEPT !.selectedCards = {"SDE"},
                                !.fileName = <<"r", ".", "t", "x", "t">>,
                                !.stepsActive = {1, 2, 3},
                                !.stepsDone = {1, 2, 3},
                                !.questionText = <<"SDE", 1>>]

ContinuedInit ==
    /\ LeakedVoiceScreen
    /\ now = 0
    /\ afterReset = FALSE
    /\ clicks = 0

ContinuedNext ==
    \/ ValidFileChosen
    \/ StartInterviewClick
    \/ StartStopClick
    \/ EndInterviewClick
    \/ Tick
    \/ AdvanceFires
    \/ ProgressFires
    \/ CompleteUploadFires
    \/ ProcessStepFires
    \/ StartVoiceFires
    \/ QuestionSpokenFires
    \/ UserSpokeFires
    \/ ResponseSpokenFires
    \/ ClockFires

ContinuedSpec == ContinuedInit /\ [][ContinuedNext]_vars

(***************************************************************************)
(* Properties.                                                             *)
(***************************************************************************)
AdvanceTimer == Timer("advance", 0, NULL, "none")

\* An upload progress simulation is running: its interval, or the timeout
\* that ends it, is scheduled.
SimRunning == Scheduled("progress") \cup Scheduled("completeUpload") # {}

\* C1: after resetApp, with no further user action, no timer scheduled
\* before the reset has any effect: currentScreen, selectedRole,
\* uploadedFile, interviewActive, currentQuestionIndex, avatarState and
\* interviewDuration stay at their defaults.
C1_ResetIsFinal ==
    afterReset =>
        /\ state.currentScreen = "role-selection"
        /\ state.selectedRole = NULL
        /\ state.uploadedFile = NULL
        /\ ~state.interviewActive
        /\ state.currentQuestionIndex = 0
        /\ state.avatarState = "ready"
        /\ state.interviewDuration = 0

\* C2: resuming a paused interview (toggleInterview while the control reads
\* "Resume Interview") leaves currentQuestionIndex at its value at the pause.
C2_ResumeKeepsIndex ==
    [][(/\ dom.btnText = "Resume Interview"
        /\ ~state.interviewActive
        /\ state'.interviewActive)
       => state'.currentQuestionIndex = state.currentQuestionIndex]_vars

\* The interview ran to its end: completion screen, inactive, every question
\* of the role counted once.
FlowCompleted ==
    /\ state.currentScreen = "interview-complete"
    /\ ~state.interviewActive
    /\ state.selectedRole # NULL
    /\ state.currentQuestionIndex = QuestionsPerRole
    /\ dom.questionsCompleted = <<QuestionsPerRole, QuestionsPerRole>>

\* C3: in the straight flow, once Start has been pressed the interview
\* eventually reaches the completion screen, inactive, after exactly N
\* question cycles (N = 4) and showing N/N questions completed.
C3_FullFlowCompletes == state.interviewActive ~> FlowCompleted

C3_Witness == FlowCompleted /\ clicks = 4

\* C4: currentQuestionIndex never exceeds the number of questions of the
\* selected role (0 when no role is selected).
C4_IndexWithinQuestions ==
    state.currentQuestionIndex <= Len(getCurrentQuestions(Cur))

\* C5 (as stated): while interviewActive is false no timer whose id is held
\* in this.timers (interview clock, setup sequence) is scheduled.
C5_NoHandleWhenInactive ==
    ~state.interviewActive => \A t \in BagToSet(pending) : t.slot = "none"

\* C5 (amended): while interviewActive is false the interview clock handle
\* is null and no interview clock interval is scheduled.
C5_NoClockWhenInactive ==
    ~state.interviewActive =>
        /\ timers.interview = NULL
        /\ Scheduled("clock") = {}

\* An interview that ran for a while has been paused.
C5_Witness ==
    /\ ~state.interviewActive
    /\ dom.btnText = "Resume Interview"
    /\ state.currentScreen = "voice-interview"
    /\ state.interviewDuration > 0

\* C6: avatarState is always one of ready, listening, speaking.
C6_AvatarStateEnumerated == state.avatarState \in AvatarStates

C6_Witness == state.interviewActive /\ state.avatarState = "listening"

\* C7: selectRole(R) leaves exactly R selected, in the session and on the
\* cards, for every role R of the catalog, whatever was selected before; the
\* auto-advance callback shows the upload screen.
C7_SelectRole ==
    [][/\ \A role \in Roles :
            UserStep(selectRole(Cur, role)) =>
                /\ state'.selectedRole = role
                /\ dom'.selectedCards = {role.id}
                /\ (state.selectedRole = role /\ dom.selectedCards = {role.id}
                        => state'.selectedRole = state.selectedRole
                           /\ dom'.selectedCards = dom.selectedCards)
       /\ (BagCardinality(pending') < BagCardinality(pending)
              /\ clicks' = clicks
              /\ BagIn(AdvanceTimer, pending)
              /\ CopiesIn(AdvanceTimer, pending') < CopiesIn(AdvanceTimer, pending)
           => state'.currentScreen = "resume-upload")]_vars

\* A second role was selected over a first one and the delay has elapsed.
C7_Witness ==
    /\ clicks = 2
    /\ ~afterReset
    /\ state.selectedRole = jobRoles[6]
    /\ dom.selectedCards = {"DevOps"}
    /\ state.currentScreen = "resume-upload"
    /\ pending = EmptyBag

\* Files of a type outside the allow-list, and files of an allowed type by
\* size, as the claims name them.
DisallowedFiles == {f \in Files : f.type = "application/x-msdownload"}

AllowedFiles == Files \ DisallowedFiles

TenMiB == 10485760

SessionUntouched ==
    /\ state' = state
    /\ timers' = timers
    /\ dom'.startDisabled = dom.startDisabled
    /\ dom'.uploadAreaHidden = dom.uploadAreaHidden
    /\ dom'.uploadProgressHidden = dom.uploadProgressHidden
    /\ dom'.fileInfoHidden = dom.fileInfoHidden
    /\ Scheduled("progress")' = Scheduled("progress")
    /\ Scheduled("completeUpload")' = Scheduled("completeUpload")

\* C8: handleFileUpload on a file whose type is not in the allow-list shows
\* the type error and changes neither the session state nor the upload
\* widget, and starts no progress simulation.
C8_TypeErrorNoMutation ==
    [][\A file \in DisallowedFiles :
          UserStep(handleFileUpload(Cur, file)) =>
              /\ dom'.errorMessage = TypeErrorMessage
              /\ ~dom'.errorHidden
              /\ SessionUntouched]_vars

C8_Witness ==
    /\ dom.errorMessage = TypeErrorMessage
    /\ ~dom.errorHidden
    /\ state.currentScreen = "resume-upload"
    /\ state.uploadedFile # NULL

\* C9: handleFileUpload on a file of allowed type larger than 10 MiB shows
\* the size error, a message different from the type error, and changes
\* nothing else; a file of allowed type of at most 10 MiB is accepted: its
\* progress simulation starts.
C9_SizeLimit ==
    [][\A file \in AllowedFiles :
          UserStep(handleFileUpload(Cur, file)) =>
              IF file.size > TenMiB
              THEN /\ dom'.errorMessage = SizeErrorMessage
                   /\ dom'.errorMessage # TypeErrorMessage
                   /\ ~dom'.errorHidden
                   /\ SessionUntouched
              ELSE /\ dom'.uploadAreaHidden
                   /\ ~dom'.uploadProgressHidden
                   /\ dom'.errorHidden = dom.errorHidden
                   /\ CopiesIn(Timer("progress", 0, file, "none"), pending')
                          = CopiesIn(Timer("progress", 0, file, "none"), pending) + 1]_vars

\* A file of 10 MiB + 1 byte was refused and one of exactly 10 MiB accepted.
C9_Witness ==
    /\ dom.errorMessage = SizeErrorMessage
    /\ \E t \in Scheduled("progress") : t.file.size = TenMiB

\* C10: while a progress simulation runs uploadedFile does not change and
\* the start-interview action stays disabled; the completion of a simulation
\* stores exactly its file and enables the action.
C10_UploadAtomic ==
    [][/\ (SimRunning /\ SimRunning') =>
              /\ state'.uploadedFile = state.uploadedFile
              /\ dom.startDisabled
              /\ dom'.startDisabled
       /\ \A t \in Scheduled("completeUpload") :
              TimerStep(completeUpload(cancel(Cur, t), t.file)) =>
                  /\ state'.uploadedFile = t.file
                  /\ ~dom'.startDisabled]_vars

\* C11: removeFile applied in any reachable state with no file stored leaves
\* the session state, the timer handles and the scheduled timers unchanged,
\* and in any reachable state removeFile applied twice gives what it gives
\* applied once.
C11_RemoveFileIdempotent ==
    /\ removeFile(removeFile(Cur)) = removeFile(Cur)
    /\ state.uploadedFile = NULL =>
           /\ removeFile(Cur).state = state
           /\ removeFile(Cur).timers = timers
           /\ removeFile(Cur).pending = pending

\* resetApp has called removeFile with no file stored while an upload
\* simulation was showing its progress.
C11_Witness ==
    /\ afterReset
    /\ state.uploadedFile = NULL
    /\ ~dom.uploadAreaHidden
    /\ ~dom.uploadProgressHidden
    /\ SimRunning

\* C12: every step that is a resetApp (logo click or "start new interview")
\* ends, whatever the state it is taken from, with currentScreen =
\* role-selection, selectedRole = null, uploadedFile = null, interviewActive
\* = false, currentQuestionIndex = 0, interviewStartTime = null,
\* interviewDuration = 0, avatarState = ready, isMuted = false, every timer
\* handle null and the start-interview action disabled.
C12_ResetToDefaults ==
    [][(clicks' = clicks + 1 /\ afterReset') =>
          /\ state'.currentScreen = "role-selection"
          /\ state'.selectedRole = NULL
          /\ state'.uploadedFile = NULL
          /\ state'.interviewActive = FALSE
          /\ state'.currentQuestionIndex = 0
          /\ state'.interviewStartTime = NULL
          /\ state'.interviewDuration = 0
          /\ state'.avatarState = "ready"
          /\ state'.isMuted = FALSE
          /\ \A slot \in DOMAIN timers' : timers'[slot] = NULL
          /\ dom'.startDisabled]_vars

\* The reset was taken from a running interview: the timeout of its question
\* cycle is still scheduled.
C12_Witness ==
    /\ afterReset
    /\ state = DefaultState
    /\ timers = NoTimers
    /\ Scheduled("questionSpoken") # {}

\* The question-cycle timeouts pending since before a pause or a reset.
StaleSteps == {t \in BagToSet(pending) : t.k \in CycleKinds /\ t.n = 1}

\* C13: a question-cycle callback scheduled before a pause or a reset changes
\* nothing of the session when it fires afterwards: neither avatarState, nor
\* the displayed text, nor currentQuestionIndex, nor the screen, whether or
\* not the interview has been started again in between.
C13_StaleStepInert ==
    [][\A t \in StaleSteps :
          (clicks' = clicks /\ CopiesIn(t, pending') < CopiesIn(t, pending)) =>
              /\ state'.avatarState = state.avatarState
              /\ dom'.questionText = dom.questionText
              /\ state'.currentQuestionIndex = state.currentQuestionIndex
              /\ state'.currentScreen = state.currentScreen]_vars

\* The number of scheduled timers whose callback is one of `kinds`.
Outstanding(kinds) ==
    BagCardinality([t \in {x \in BagToSet(pending) : x.k \in kinds} |-> pending[t]])

\* C14: at any time at most one interview-clock interval, at most one
\* setup-sequence timeout and at most one question-cycle step timeout are
\* scheduled.
C14_OneTimerPerSlot ==
    /\ Outstanding({"clock"}) <= 1
    /\ Outstanding({"processStep", "startVoice"}) <= 1
    /\ Outstanding({"questionSpoken", "userSpoke", "responseSpoken"}) <= 1

SetupKinds == {"processStep", "startVoice"}

\* C15: a reset taken on the interview-setup screen cancels the setup
\* sequence: it leaves no setup timeout scheduled, neither a processStep
\* (which would activate the next step) nor the final startVoiceInterview
\* (which shows voice-interview whatever the state it fires in), so that
\* only a new press of start-interview can activate a step or show
\* voice-interview.
C15_SetupCancelable ==
    [][(state.currentScreen = "interview-setup" /\ afterReset' /\ clicks' = clicks + 1)
          => Outstanding(SetupKinds)' = 0]_vars

\* The application after the callback of the scheduled timer t has run in s
\* (the first mock response and the smallest progress increment are drawn).
Fired(s, t) ==
    CASE t.k = "advance" -> showScreen(cancel(s, t), "resume-upload")
      [] t.k = "progress" -> progressTick(s, t, 5)
      [] t.k = "completeUpload" -> completeUpload(cancel(s, t), t.file)
      [] t.k = "processStep" -> processStep(cancel(s, t), t.n)
      [] t.k = "startVoice" -> startVoiceInterview(cancel(s, t))
      [] t.k = "questionSpoken" -> questionSpoken(cancel(s, t))
      [] t.k = "userSpoke" -> userSpoke(cancel(s, t), 1)
      [] t.k = "responseSpoken" -> responseSpoken(cancel(s, t))
      [] t.k = "clock" -> clockTick(s)
      [] t.k = "hideError" -> hideError(cancel(s, t))

CurNext == [state |-> state', timers |-> timers', pending |-> pending', dom |-> dom']

\* C16: endInterview, pressed at any position of the interview, leaves
\* interviewActive false, the interview clock stopped, the completion screen
\* shown, and no timer scheduled whose callback changes the session state.
C16_EndStopsEverything ==
    [][(state.currentScreen = "voice-interview" /\ UserStep(endInterview(Cur))) =>
          /\ ~state'.interviewActive
          /\ timers'.interview = NULL
          /\ Scheduled("clock")' = {}
          /\ state'.currentScreen = "interview-complete"
          /\ \A t \in BagToSet(pending') : Fired(CurNext, t).state = state']_vars

\* C17: the step that pauses an active interview (the start/stop control
\* pressed while interviewActive is true; its label turns to "Resume
\* Interview") sets interviewActive to false and avatarState to ready, stops
\* the interview clock, and leaves currentQuestionIndex, interviewDuration,
\* selectedRole, uploadedFile, isMuted and currentScreen unchanged.
C17_PauseFrame ==
    [][(/\ state.interviewActive
        /\ clicks' = clicks + 1
        /\ dom'.btnText = "Resume Interview") =>
          /\ ~state'.interviewActive
          /\ state'.avatarState = "ready"
          /\ timers'.interview = NULL
          /\ Scheduled("clock")' = {}
          /\ state'.currentQuestionIndex = state.currentQuestionIndex
          /\ state'.interviewDuration = state.interviewDuration
          /\ state'.selectedRole = state.selectedRole
          /\ state'.uploadedFile = state.uploadedFile
          /\ state'.isMuted = state.isMuted
          /\ state'.currentScreen = state.currentScreen]_vars

\* A muted interview was paused in its second question, the avatar having
\* been listening, after the clock had counted.
C17_Witness ==
    /\ ~state.interviewActive
    /\ dom.btnText = "Resume Interview"
    /\ state.avatarState = "ready"
    /\ state.currentQuestionIndex = 1
    /\ state.interviewDuration > 0
    /\ state.isMuted
    /\ Scheduled("userSpoke") # {}

\* C18: the error banner is hidden by a timer only when its own auto-hide
\* delay has elapsed.  Every showError schedules one auto-hide timeout of
\* the same delay, so the timeouts fire in the order of the banners: the one
\* of the banner on display is the last to fire, and a timer step that hides
\* the banner must leave no auto-hide timeout scheduled.
C18_BannerFullDelay ==
    [][(clicks' = clicks /\ ~dom.errorHidden /\ dom'.errorHidden)
          => Scheduled("hideError")' = {}]_vars

\* C19: a press of the mute control flips isMuted and writes the label that
\* goes with it; it leaves every other field of the session state, the timer
\* handles, the scheduled timers and the rest of the page unchanged; a second
\* press right after it gives back the session state, handles and timers.
C19_MuteFrame ==
    [][(state.currentScreen = "voice-interview" /\ UserStep(toggleMute(Cur))) =>
          /\ state'.isMuted = ~state.isMuted
          /\ state' = [state EXCEPT !.isMuted = state'.isMuted]
          /\ timers' = timers
          /\ pending' = pending
          /\ dom'.muteText = (IF state'.isMuted THEN "Muted" ELSE "Unmuted")
          /\ dom' = [dom EXCEPT !.muteText = dom'.muteText]
          /\ toggleMute(CurNext).state = state
          /\ toggleMute(CurNext).timers = timers
          /\ toggleMute(CurNext).pending = pending]_vars

\* The interview was muted and unmuted while the avatar was listening.
C19_Witness ==
    /\ ~state.isMuted
    /\ dom.muteText = "Unmuted"
    /\ state.interviewActive
    /\ state.avatarState = "listening"
    /\ Scheduled("userSpoke") # {}
    /\ Scheduled("clock") # {}

\* C20: the questions-completed count on display is at most the number of
\* questions of the selected role, and, in a session without reset, the
\* elapsed duration and the count on display do not change once the
\* completion screen has shown them.
C20_CompletionFrozen ==
    [][/\ (dom'.questionsCompleted # NULL /\ state'.selectedRole # NULL) =>
              dom'.questionsCompleted[1] <= Len(state'.selectedRole.questions)
       /\ dom.finalDuration # NULL =>
              /\ dom'.finalDuration = dom.finalDuration
              /\ dom'.questionsCompleted = dom.questionsCompleted]_vars

\* The screens in the order of the flow, and the position of a screen in it.
ScreenOrder ==
    <<"role-selection", "resume-upload", "interview-setup",
      "voice-interview", "interview-complete">>

ScreenPosition(screen) == CHOOSE i \in 1..Len(ScreenOrder) : ScreenOrder[i] = screen

\* C21: every change of currentScreen goes to the next screen of the order
\* or back to role-selection.
C21_ScreenOrder ==
    [][state'.currentScreen # state.currentScreen =>
          \/ state'.currentScreen = "role-selection"
          \/ ScreenPosition(state'.currentScreen) = ScreenPosition(state.currentScreen) + 1]_vars

\* A setup step is activated in this step of the behaviour.
StepActivated == dom'.stepsActive # dom.stepsActive

\* The steps are activated one at a time in the order 1, 2, 3, step k + 1
\* only together with or after the completion mark of step k.
StepsInOrder ==
    /\ StepActivated =>
           \E k \in 1..StepCount :
               /\ dom.stepsActive = 1..(k - 1)
               /\ dom'.stepsActive = 1..k
    /\ \A k \in 1..(StepCount - 1) : (k + 1) \in dom'.stepsActive => k \in dom'.stepsDone

\* Steps 2 and 3 are activated by the timeout of the step before them.
LaterStepsDelayed ==
    (StepActivated /\ dom.stepsActive # {}) =>
        /\ clicks' = clicks
        /\ \E t \in Scheduled("processStep") : CopiesIn(t, pending') < CopiesIn(t, pending)

\* voice-interview is entered by the timeout scheduled after step 3 had been
\* marked complete, with the avatar ready and the interview not active.
VoiceEntered ==
    (state.currentScreen # "voice-interview" /\ state'.currentScreen = "voice-interview") =>
        /\ StepCount \in dom.stepsDone
        /\ clicks' = clicks
        /\ \E t \in Scheduled("startVoice") : CopiesIn(t, pending') < CopiesIn(t, pending)
        /\ state'.avatarState = "ready"
        /\ ~state'.interviewActive

\* C22 (as stated): in the uninterrupted flow the three steps are activated in
\* order, each by a timeout (after the step delay), step k + 1 never before
\* step k is marked complete, and voice-interview is entered only after step
\* 3 was marked complete and a further delay, avatar ready, interview not
\* active.
C22_EveryStepDelayed ==
    [][/\ StepsInOrder
       /\ StepActivated => clicks' = clicks
       /\ LaterStepsDelayed
       /\ VoiceEntered]_vars

\* C22 (amended): the same, except that step 1 is activated by the press of
\* start-interview itself, without delay; steps 2 and 3 by timeouts.
C22_SetupSequence ==
    [][/\ StepsInOrder
       /\ (StepActivated /\ dom.stepsActive = {}) =>
              (clicks' = clicks + 1 /\ state'.currentScreen = "interview-setup")
       /\ LaterStepsDelayed
       /\ VoiceEntered]_vars

\* The setup sequence has run through and shown the interview screen.
C22_Witness ==
    /\ state.currentScreen = "voice-interview"
    /\ dom.stepsActive = 1..StepCount
    /\ dom.stepsDone = 1..StepCount
    /\ clicks = 3
    /\ pending = EmptyBag

\* The three steps of a question cycle, read from the avatar and the text
\* on display; sn is a session state, dm the page.
AskingIn(sn, dm) ==
    /\ sn.avatarState = "speaking"
    /\ sn.selectedRole # NULL
    /\ sn.currentQuestionIndex < Len(sn.selectedRole.questions)
    /\ dm.questionText = sn.selectedRole.questions[sn.currentQuestionIndex + 1]

ListeningIn(sn, dm) ==
    /\ sn.avatarState = "listening"
    /\ sn.selectedRole # NULL
    /\ sn.currentQuestionIndex < Len(sn.selectedRole.questions)
    /\ dm.questionText = sn.selectedRole.questions[sn.currentQuestionIndex + 1]

RespondingIn(sn, dm) ==
    /\ sn.avatarState = "speaking"
    /\ \E r \in 1..NumResponses : dm.questionText = mockResponses[r]

\* C23: in the uninterrupted flow an active interview is always in one of
\* the three steps of a cycle; the steps follow each other in the order
\* speaking with the question displayed, listening, speaking with a canned
\* response displayed; currentQuestionIndex changes only at the end of the
\* response step, by exactly 1; then the next cycle starts at the speaking
\* step if the new index is less than the role's question count, otherwise
\* the interview ends (not active, completion screen).
C23_QuestionCycle ==
    [][/\ state'.interviewActive =>
              \/ AskingIn(state', dom')
              \/ ListeningIn(state', dom')
              \/ RespondingIn(state', dom')
       /\ (/\ state.interviewActive
           /\ <<state'.avatarState, dom'.questionText, state'.currentQuestionIndex,
                 state'.interviewActive>>
              # <<state.avatarState, dom.questionText, state.currentQuestionIndex,
                  state.interviewActive>>) =>
              \/ /\ AskingIn(state, dom)
                 /\ ListeningIn(state', dom')
                 /\ state'.currentQuestionIndex = state.currentQuestionIndex
                 /\ state'.interviewActive
              \/ /\ ListeningIn(state, dom)
                 /\ RespondingIn(state', dom')
                 /\ state'.currentQuestionIndex = state.currentQuestionIndex
                 /\ state'.interviewActive
              \/ /\ RespondingIn(state, dom)
                 /\ state'.currentQuestionIndex = state.currentQuestionIndex + 1
                 /\ IF state'.currentQuestionIndex < Len(state.selectedRole.questions)
                    THEN state'.interviewActive /\ AskingIn(state', dom')
                    ELSE /\ ~state'.interviewActive
                         /\ state'.currentScreen = "interview-complete"]_vars

\* The second cycle of an interview has reached its response step.
C23_Witness ==
    /\ state.interviewActive
    /\ state.currentQuestionIndex = 1
    /\ RespondingIn(state, dom)
    /\ Scheduled("responseSpoken") # {}

\* C24: a removeFile or resetApp step leaves no file stored, the
\* start-interview action disabled and no progress simulation running (a
\* running simulation stores its file when it completes, whatever happened
\* since it started); and as long as the reset is the last user action, no
\* file is stored and the action stays disabled.
C24_FileDiscarded ==
    [][/\ (\/ clicks' = clicks + 1 /\ afterReset'
           \/ /\ state.currentScreen = "resume-upload"
              /\ ~dom.fileInfoHidden
              /\ UserStep(removeFile(Cur))) =>
              /\ state'.uploadedFile = NULL
              /\ dom'.startDisabled
              /\ ~SimRunning'
       /\ afterReset' => (state'.uploadedFile = NULL /\ dom'.startDisabled)]_vars

\* The progress intervals and the completion timeouts scheduled.
Running == Outstanding({"progress"})

Completing == Outstanding({"completeUpload"})

\* The interval t has ticked in this step: either its percentage has grown
\* by at least 5 and is still below 100, or it was within 20 of 100, has
\* been cleared, and one completion timeout for its file has been scheduled.
Ticked(t) ==
    /\ CopiesIn(t, pending') < CopiesIn(t, pending)
    /\ \/ /\ \E m \in (t.n + 5)..99 :
                 CopiesIn([t EXCEPT !.n = m], pending')
                     = CopiesIn([t EXCEPT !.n = m], pending) + 1
          /\ Running' = Running
          /\ Completing' = Completing
       \/ /\ t.n + 20 > 100
          /\ Running' = Running - 1
          /\ Completing' = Completing + 1
          /\ CopiesIn(Timer("completeUpload", 0, t.file, "none"), pending')
                 = CopiesIn(Timer("completeUpload", 0, t.file, "none"), pending) + 1

\* Every change to the progress simulations is one of: an upload accepted
\* (a new interval at 0), a tick, or the single call of completeUpload that
\* ends a simulation (its timeout fires and its file is stored).
ProgressStep ==
    /\ \A t \in Scheduled("progress")' : t.n \in 0..99
    /\ (<<Running', Completing'>> # <<Running, Completing>>
           \/ Scheduled("progress")' # Scheduled("progress")) =>
           \/ /\ clicks' = clicks + 1
              /\ Running' = Running + 1
              /\ Completing' = Completing
              /\ \E file \in Files :
                     CopiesIn(Timer("progress", 0, file, "none"), pending')
                         = CopiesIn(Timer("progress", 0, file, "none"), pending) + 1
           \/ /\ clicks' = clicks
              /\ \E t \in Scheduled("progress") : Ticked(t)
           \/ /\ clicks' = clicks
              /\ Running' = Running
              /\ Completing' = Completing - 1
              /\ \E t \in Scheduled("completeUpload") :
                     /\ CopiesIn(t, pending') = CopiesIn(t, pending) - 1
                     /\ state'.uploadedFile = t.file

\* C25: the progress simulation starts at 0, never decreases, stays below
\* 100 while it ticks, grows by at least 5 per tick (at most 20 ticks), is
\* followed by exactly one call of completeUpload once it has reached 100,
\* and terminates: a running simulation leads to its file being stored.
C25_ProgressTerminates ==
    /\ [][ProgressStep]_vars
    /\ (SimRunning ~> (~SimRunning /\ state.uploadedFile # NULL))

\* An upload has gone through its simulation and is stored.
C25_Witness ==
    /\ ~SimRunning
    /\ state.uploadedFile # NULL
    /\ ~dom.startDisabled
    /\ state.currentScreen = "resume-upload"
    /\ clicks = 2

\* The files that are refused, and the message each is refused with.
RefusedFiles == DisallowedFiles \cup {f \in AllowedFiles : f.size > TenMiB}

RefusalOf(file) ==
    IF file \in DisallowedFiles THEN TypeErrorMessage ELSE SizeErrorMessage

\* C26: every refused upload puts its own message on the banner and shows
\* it, whatever banner was on display; and nothing else changes the message
\* or shows the banner: no timer callback, and no other user action, brings
\* an earlier message back.
C26_LatestMessage ==
    [][/\ \A file \in RefusedFiles :
              UserStep(handleFileUpload(Cur, file)) =>
                  /\ dom'.errorMessage = RefusalOf(file)
                  /\ ~dom'.errorHidden
       /\ (dom'.errorMessage # dom.errorMessage \/ (dom.errorHidden /\ ~dom'.errorHidden)) =>
              /\ state.currentScreen = "resume-upload"
              /\ \E file \in RefusedFiles :
                     /\ UserStep(handleFileUpload(Cur, file))
                     /\ dom'.errorMessage = RefusalOf(file)]_vars

\* A size error was shown over a type error whose auto-hide was pending.
C26_Witness ==
    /\ dom.errorMessage = SizeErrorMessage
    /\ ~dom.errorHidden
    /\ Outstanding({"hideError"}) = 2
    /\ clicks = 3

\* C27: the start/stop control pressed while interviewActive is false sets
\* interviewActive, captures the start timestamp, sets currentQuestionIndex
\* to 0, starts the interview clock (one more interval, its id in
\* timers.interview) and begins the first question cycle (avatar speaking,
\* first question displayed when a role is selected, the question timeout
\* scheduled); selectedRole, uploadedFile, isMuted and currentScreen are
\* unchanged.
C27_StartFlow ==
    [][(/\ state.currentScreen = "voice-interview"
        /\ ~state.interviewActive
        /\ UserStep(toggleInterview(Cur))) =>
          /\ state'.interviewActive
          /\ state'.interviewStartTime = <<now * 1000>>
          /\ state'.currentQuestionIndex = 0
          /\ timers'.interview = HANDLE
          /\ Outstanding({"clock"})' = Outstanding({"clock"}) + 1
          /\ \E t \in Scheduled("clock")' : t.slot = "interview"
          /\ state'.avatarState = "speaking"
          /\ state.selectedRole # NULL => AskingIn(state', dom')
          /\ Outstanding({"questionSpoken"})' = Outstanding({"questionSpoken"}) + 1
          /\ state'.selectedRole = state.selectedRole
          /\ state'.uploadedFile = state.uploadedFile
          /\ state'.isMuted = state.isMuted
          /\ state'.currentScreen = state.currentScreen]_vars

\* A muted interview was started one second after page load.
C27_Witness ==
    /\ state.interviewActive
    /\ state.interviewStartTime = <<1000>>
    /\ state.currentQuestionIndex = 0
    /\ state.avatarState = "speaking"
    /\ state.isMuted
    /\ Scheduled("clock") # {}
    /\ Scheduled("questionSpoken") # {}

\* C28: whenever interviewActive is true a role is selected and the screen
\* is voice-interview; and the voice-interview screen is never shown while
\* no role is selected.
C28_ActiveNeedsRole ==
    /\ state.interviewActive =>
           /\ state.selectedRole # NULL
           /\ state.currentScreen = "voice-interview"
    /\ state.currentScreen = "voice-interview" => state.selectedRole # NULL

\* C29: in every reachable state the start-interview action is enabled if
\* and only if a file is stored.
C29_StartEnabledIffFile == (~dom.startDisabled) <=> (state.uploadedFile # NULL)

\* A file is stored and the user has gone back to the role selection.
C29_Witness ==
    /\ state.uploadedFile # NULL
    /\ ~dom.startDisabled
    /\ state.currentScreen = "role-selection"
    /\ state.selectedRole # NULL
    /\ ~afterReset
    /\ pending = EmptyBag

\* C30: while interviewActive is false no interview clock is scheduled, and
\* a question-cycle callback that fires changes neither
\* currentQuestionIndex, nor avatarState, nor interviewDuration, and leaves
\* interviewActive false.
C30_PausedQuiescent ==
    [][(~state.interviewActive /\ clicks' = clicks) =>
          /\ Scheduled("clock") = {}
          /\ (\E t \in BagToSet(pending) :
                  /\ t.k \in CycleKinds
                  /\ CopiesIn(t, pending') < CopiesIn(t, pending)) =>
                 /\ state'.currentQuestionIndex = state.currentQuestionIndex
                 /\ state'.avatarState = state.avatarState
                 /\ state'.interviewDuration = state.interviewDuration
                 /\ ~state'.interviewActive]_vars

\* An interview was paused in its second question and the timeout pending
\* at the pause has fired since.
C30_Witness ==
    /\ ~state.interviewActive
    /\ dom.btnText = "Resume Interview"
    /\ state.currentQuestionIndex = 1
    /\ state.avatarState = "ready"
    /\ pending = EmptyBag
    /\ clicks = 5

\* The accept decision as a formula over the file alone, and what a step
\* shows of each outcome.
AllowedExtensions ==
    {<<".", "p", "d", "f">>, <<".", "d", "o", "c", "x">>, <<".", "d", "o", "c">>}

TypeAllowed(file) ==
    \/ file.type \in validTypes
    \/ \E ext \in AllowedExtensions : endsWith(toLowerCase(file.name), ext)

Accepted(file) == TypeAllowed(file) /\ file.size <= TenMiB

SimulationStarted(file) ==
    CopiesIn(Timer("progress", 0, file, "none"), pending')
        = CopiesIn(Timer("progress", 0, file, "none"), pending) + 1

Refused(message) ==
    /\ dom'.errorMessage = message
    /\ ~dom'.errorHidden
    /\ Scheduled("progress")' = Scheduled("progress")

\* C31: handleFileUpload starts the progress simulation of a file exactly
\* when (its MIME type is in the allow-list or its lower-cased name ends in
\* .pdf, .docx or .doc) and its size is at most 10 MiB; a file that fails
\* the type check is refused with the type error whatever its size, a file
\* that passes it and is too large with the size error, and an accepted
\* file leaves the banner alone.
C31_AcceptDecision ==
    [][\A file \in Files :
          UserStep(handleFileUpload(Cur, file)) =>
              /\ SimulationStarted(file) <=> Accepted(file)
              /\ ~TypeAllowed(file) => Refused(TypeErrorMessage)
              /\ (TypeAllowed(file) /\ file.size > TenMiB) => Refused(SizeErrorMessage)
              /\ Accepted(file) =>
                     /\ dom'.errorMessage = dom.errorMessage
                     /\ dom'.errorHidden = dom.errorHidden]_vars

\* A file that fails both checks was refused with the type error, and the
\* simulation of r.txt, of MIME type application/msword, is running.
C31_Witness ==
    /\ dom.errorMessage = TypeErrorMessage
    /\ \E t \in Scheduled("progress") :
           /\ t.file.name = <<"r", ".", "t", "x", "t">>
           /\ t.file.type = "application/msword"
    /\ state.uploadedFile = NULL
    /\ clicks = 3

====
